---- MODULE Spec2Model ----
(***************************************************************************)
(* Davis WeatherLink Live / AirLink -> InfluxDB line protocol converters.  *)
(* Two Node-RED function nodes (the WeatherLink converter and airlink.js)  *)
(* modelled as one state machine: a message arrives, the node parses it,   *)
(* validates it, extracts the fields of each sub-report against a static   *)
(* schema and returns the encoded lines, null, or throws.                  *)
(*                                                                         *)
(* JavaScript strings are sequences of one-character strings.  JavaScript  *)
(* numbers are fixed-point: a number value carries n, its value in         *)
(* thousandths (Scale), which represents every value the converters        *)
(* produce (toFixed(1), toFixed(2), toFixed(3)) exactly.                   *)
(***************************************************************************)
EXTENDS Integers, Sequences, FiniteSets, TLC

\* ------------------------------------------------------------------------
\* JavaScript values
\* ------------------------------------------------------------------------

\* Thousandths per unit of a number value's n.
Scale == 1000

Undefined == [t |-> "undefined", n |-> 0, s |-> <<>>]
Null == [t |-> "null", n |-> 0, s |-> <<>>]
NaN == [t |-> "NaN", n |-> 0, s |-> <<>>]
Num(m) == [t |-> "number", n |-> m, s |-> <<>>]
Str(str) == [t |-> "string", n |-> 0, s |-> str]
\* An object: props is a function from its own keys to their values.
Obj(props) == [t |-> "object", props |-> props]
\* An array: items is the sequence of its elements.
Arr(items) == [t |-> "array", items |-> items]

\* v == null (loose): true of null and undefined only.
IsNullish(v) == v.t \in {"undefined", "null"}

\* ToBoolean(v).
Truthy(v) ==
    CASE v.t \in {"undefined", "null", "NaN"} -> FALSE
      [] v.t = "number" -> v.n # 0
      [] v.t = "string" -> v.s # <<>>
      [] OTHER -> TRUE

\* v === k for a number literal k (no coercion).
StrictEqualsNumber(v, k) == v.t = "number" /\ v.n = k * Scale

\* obj[key]: undefined for a missing key and for a primitive receiver.
Get(obj, key) ==
    IF obj.t = "object" /\ key \in DOMAIN obj.props THEN obj.props[key] ELSE Undefined

Digits == <<"0", "1", "2", "3", "4", "5", "6", "7", "8", "9">>

DigitValue(c) == (CHOOSE i \in 1..10 : Digits[i] = c) - 1

IsDigit(c) == \E i \in 1..10 : Digits[i] = c

\* The decimal digits of a natural number.
RECURSIVE NatToString(_)
NatToString(k) ==
    IF k < 10 THEN <<Digits[k + 1]>>
    ELSE NatToString(k \div 10) \o <<Digits[(k % 10) + 1]>>

\* The fraction digits of m thousandths (0 <= m < Scale), trailing zeros dropped.
FractionToString(m) ==
    LET d1 == m \div 100
        d2 == (m \div 10) % 10
        d3 == m % 10
    IN  IF d3 # 0 THEN <<Digits[d1 + 1], Digits[d2 + 1], Digits[d3 + 1]>>
        ELSE IF d2 # 0 THEN <<Digits[d1 + 1], Digits[d2 + 1]>>
        ELSE <<Digits[d1 + 1]>>

\* Number::toString of the number with n thousandths.
NumberToString(n) ==
    LET a == IF n < 0 THEN -n ELSE n
        sign == IF n < 0 THEN <<"-">> ELSE <<>>
    IN  sign \o NatToString(a \div Scale) \o
        (IF a % Scale = 0 THEN <<>> ELSE <<".">> \o FractionToString(a % Scale))

\* String(v) / template-literal interpolation ${v}.
String(v) ==
    CASE v.t = "string" -> v.s
      [] v.t = "number" -> NumberToString(v.n)
      [] v.t = "NaN" -> <<"N", "a", "N">>
      [] v.t = "null" -> <<"n", "u", "l", "l">>
      [] v.t = "undefined" -> <<"u", "n", "d", "e", "f", "i", "n", "e", "d">>
      [] OTHER -> <<"[", "o", "b", "j", "e", "c", "t", " ", "O", "b", "j", "e", "c", "t", "]">>

\* The value of a string of decimal digits.
RECURSIVE DigitsToNat(_)
DigitsToNat(str) ==
    IF str = <<>> THEN 0
    ELSE 10 * DigitsToNat(SubSeq(str, 1, Len(str) - 1)) + DigitValue(str[Len(str)])

\* ToNumber(v).  A string converts to 0 when empty, to its value when it is
\* all decimal digits and to NaN otherwise (the strings of the model hold
\* digits and letters only: no sign, point, exponent, radix prefix or blank).
ToNumber(v) ==
    CASE v.t = "number" -> v
      [] v.t = "string" ->
            IF \A i \in 1..Len(v.s) : IsDigit(v.s[i])
            THEN Num(DigitsToNat(v.s) * Scale) ELSE NaN
      [] v.t = "null" -> Num(0)
      [] OTHER -> NaN

\* Number.isNaN(v): true of the number NaN only, without coercion.
NumberIsNaN(v) == v.t = "NaN"

\* floor(n / Scale) in thousandths: rounds toward minus infinity.
FloorThousandths(n) == (n \div Scale) * Scale

\* Math.trunc in the place of Math.floor: the fraction dropped, toward zero.
MathTrunc(v) ==
    LET x == ToNumber(v)
    IN  IF x.t = "NaN" THEN NaN
        ELSE Num(IF x.n >= 0 THEN (x.n \div Scale) * Scale ELSE -(((-x.n) \div Scale) * Scale))

\* Math.floor(v).
MathFloor(v) ==
    LET x == ToNumber(v)
    IN  IF x.t = "NaN" THEN NaN ELSE Num(FloorThousandths(x.n))

\* ------------------------------------------------------------------------
\* Unit conversion functions
\* ------------------------------------------------------------------------

\* Rain collector size in mm per tip (CONFIG.rainCupSizeMm = 0.2), in thousandths.
rainCupSizeMm == 200

\* n thousandths times (whole + num/den), rounded to the nearest multiple of
\* step thousandths as toFixed rounds a decimal: on the magnitude, a tie
\* going up.
RoundedProduct(n, whole, num, den, step) ==
    LET a == IF n < 0 THEN -n ELSE n
        w == a * whole + (a * num) \div den
        r == (a * num) % den
        low == w % step
        mag == w - low + (IF 2 * (low * den + r) >= step * den THEN step ELSE 0)
    IN  IF n < 0 THEN -mag ELSE mag

\* f != null ? +((f - 32) * 5 / 9).toFixed(1) : null
fahrenheitToCelsius(f) ==
    IF IsNullish(f) THEN Null
    ELSE LET x == ToNumber(f)
         IN  IF x.t = "NaN" THEN NaN
             ELSE Num(RoundedProduct(x.n - 32 * Scale, 0, 5, 9, 100))

\* inHg != null ? +(inHg * 33.8639).toFixed(1) : null
inHgToHPa(inHg) ==
    IF IsNullish(inHg) THEN Null
    ELSE LET x == ToNumber(inHg)
         IN  IF x.t = "NaN" THEN NaN
             ELSE Num(RoundedProduct(x.n, 33, 8639, 10000, 100))

\* inHg != null ? +(inHg * 33.8639).toFixed(3) : null
inHgToHPaTrend(inHg) ==
    IF IsNullish(inHg) THEN Null
    ELSE LET x == ToNumber(inHg)
         IN  IF x.t = "NaN" THEN NaN
             ELSE Num(RoundedProduct(x.n, 33, 8639, 10000, 1))

\* mph != null ? +(mph * 0.44704).toFixed(2) : null
mphToMs(mph) ==
    IF IsNullish(mph) THEN Null
    ELSE LET x == ToNumber(mph)
         IN  IF x.t = "NaN" THEN NaN
             ELSE Num(RoundedProduct(x.n, 0, 44704, 100000, 10))

\* tips != null ? +(tips * CONFIG.rainCupSizeMm).toFixed(1) : null
tipsToMm(tips) ==
    IF IsNullish(tips) THEN Null
    ELSE LET x == ToNumber(tips)
         IN  IF x.t = "NaN" THEN NaN
             ELSE Num(RoundedProduct(x.n, 0, rainCupSizeMm, Scale, 100))

\* config.convert(value) for the converter a schema entry names.
Convert(name, value) ==
    CASE name = "fahrenheitToCelsius" -> fahrenheitToCelsius(value)
      [] name = "inHgToHPa" -> inHgToHPa(value)
      [] name = "inHgToHPaTrend" -> inHgToHPaTrend(value)
      [] name = "mphToMs" -> mphToMs(value)
      [] name = "tipsToMm" -> tipsToMm(value)

\* ------------------------------------------------------------------------
\* Field schema definitions
\* Each entry: the output field name, its InfluxDB type ("float" or "int"),
\* its source key (<<>>: defaults to the field name) and its converter
\* ("none": the value is passed through).
\* ------------------------------------------------------------------------

Field(name, type, convert) ==
    [name |-> name, type |-> type, source |-> <<>>, convert |-> convert]

OUTDOOR_SCHEMA ==
    <<Field(<<"t", "e", "m", "p">>, "float", "fahrenheitToCelsius"),
      Field(<<"h", "u", "m">>, "float", "none"),
      Field(<<"d", "e", "w", "_", "p", "o", "i", "n", "t">>, "float", "fahrenheitToCelsius"),
      Field(<<"w", "e", "t", "_", "b", "u", "l", "b">>, "float", "fahrenheitToCelsius"),
      Field(<<"h", "e", "a", "t", "_", "i", "n", "d", "e", "x">>, "float", "fahrenheitToCelsius"),
      Field(<<"w", "i", "n", "d", "_", "c", "h", "i", "l", "l">>, "float", "fahrenheitToCelsius"),
      Field(<<"t", "h", "w", "_", "i", "n", "d", "e", "x">>, "float", "fahrenheitToCelsius"),
      Field(<<"t", "h", "s", "w", "_", "i", "n", "d", "e", "x">>, "float", "fahrenheitToCelsius"),
      Field(<<"w", "i", "n", "d", "_", "s", "p", "e", "e", "d", "_", "l", "a", "s", "t">>, "float", "mphToMs"),
      Field(<<"w", "i", "n", "d", "_", "s", "p", "e", "e", "d", "_", "a", "v", "g", "_", "l", "a", "s", "t", "_", "1", "_", "m", "i", "n">>, "float", "mphToMs"),
      Field(<<"w", "i", "n", "d", "_", "s", "p", "e", "e", "d", "_", "a", "v", "g", "_", "l", "a", "s", "t", "_", "2", "_", "m", "i", "n">>, "float", "mphToMs"),
      Field(<<"w", "i", "n", "d", "_", "s", "p", "e", "e", "d", "_", "h", "i", "_", "l", "a", "s", "t", "_", "2", "_", "m", "i", "n">>, "float", "mphToMs"),
      Field(<<"w", "i", "n", "d", "_", "s", "p", "e", "e", "d", "_", "a", "v", "g", "_", "l", "a", "s", "t", "_", "1", "0", "_", "m", "i", "n">>, "float", "mphToMs"),
      Field(<<"w", "i", "n", "d", "_", "s", "p", "e", "e", "d", "_", "h", "i", "_", "l", "a", "s", "t", "_", "1", "0", "_", "m", "i", "n">>, "float", "mphToMs"),
      Field(<<"w", "i", "n", "d", "_", "d", "i", "r", "_", "l", "a", "s", "t">>, "int", "none"),
      Field(<<"w", "i", "n", "d", "_", "d", "i", "r", "_", "s", "c", "a", "l", "a", "r", "_", "a", "v", "g", "_", "l", "a", "s", "t", "_", "1", "_", "m", "i", "n">>, "int", "none"),
      Field(<<"w", "i", "n", "d", "_", "d", "i", "r", "_", "s", "c", "a", "l", "a", "r", "_", "a", "v", "g", "_", "l", "a", "s", "t", "_", "2", "_", "m", "i", "n">>, "int", "none"),
      Field(<<"w", "i", "n", "d", "_", "d", "i", "r", "_", "a", "t", "_", "h", "i", "_", "s", "p", "e", "e", "d", "_", "l", "a", "s", "t", "_", "2", "_", "m", "i", "n">>, "int", "none"),
      Field(<<"w", "i", "n", "d", "_", "d", "i", "r", "_", "s", "c", "a", "l", "a", "r", "_", "a", "v", "g", "_", "l", "a", "s", "t", "_", "1", "0", "_", "m", "i", "n">>, "int", "none"),
      Field(<<"w", "i", "n", "d", "_", "d", "i", "r", "_", "a", "t", "_", "h", "i", "_", "s", "p", "e", "e", "d", "_", "l", "a", "s", "t", "_", "1", "0", "_", "m", "i", "n">>, "int", "none"),
      Field(<<"r", "a", "i", "n", "_", "r", "a", "t", "e", "_", "l", "a", "s", "t">>, "float", "tipsToMm"),
      Field(<<"r", "a", "i", "n", "_", "r", "a", "t", "e", "_", "h", "i">>, "float", "tipsToMm"),
      Field(<<"r", "a", "i", "n", "f", "a", "l", "l", "_", "l", "a", "s", "t", "_", "1", "5", "_", "m", "i", "n">>, "float", "tipsToMm"),
      Field(<<"r", "a", "i", "n", "_", "r", "a", "t", "e", "_", "h", "i", "_", "l", "a", "s", "t", "_", "1", "5", "_", "m", "i", "n">>, "float", "tipsToMm"),
      Field(<<"r", "a", "i", "n", "f", "a", "l", "l", "_", "l", "a", "s", "t", "_", "6", "0", "_", "m", "i", "n">>, "float", "tipsToMm"),
      Field(<<"r", "a", "i", "n", "f", "a", "l", "l", "_", "l", "a", "s", "t", "_", "2", "4", "_", "h", "r">>, "float", "tipsToMm"),
      Field(<<"r", "a", "i", "n", "f", "a", "l", "l", "_", "d", "a", "i", "l", "y">>, "float", "tipsToMm"),
      Field(<<"r", "a", "i", "n", "f", "a", "l", "l", "_", "m", "o", "n", "t", "h", "l", "y">>, "float", "tipsToMm"),
      Field(<<"r", "a", "i", "n", "f", "a", "l", "l", "_", "y", "e", "a", "r">>, "float", "tipsToMm"),
      Field(<<"r", "a", "i", "n", "_", "s", "t", "o", "r", "m">>, "float", "tipsToMm"),
      Field(<<"r", "a", "i", "n", "_", "s", "t", "o", "r", "m", "_", "l", "a", "s", "t">>, "float", "tipsToMm"),
      Field(<<"s", "o", "l", "a", "r", "_", "r", "a", "d">>, "int", "none"),
      Field(<<"u", "v", "_", "i", "n", "d", "e", "x">>, "float", "none")>>

INDOOR_SCHEMA ==
    <<Field(<<"t", "e", "m", "p", "_", "i", "n">>, "float", "fahrenheitToCelsius"),
      Field(<<"h", "u", "m", "_", "i", "n">>, "float", "none"),
      Field(<<"d", "e", "w", "_", "p", "o", "i", "n", "t", "_", "i", "n">>, "float", "fahrenheitToCelsius"),
      Field(<<"h", "e", "a", "t", "_", "i", "n", "d", "e", "x", "_", "i", "n">>, "float", "fahrenheitToCelsius")>>

BAROMETER_SCHEMA ==
    <<Field(<<"b", "a", "r", "_", "s", "e", "a", "_", "l", "e", "v", "e", "l">>, "float", "inHgToHPa"),
      Field(<<"b", "a", "r", "_", "a", "b", "s", "o", "l", "u", "t", "e">>, "float", "inHgToHPa"),
      Field(<<"b", "a", "r", "_", "t", "r", "e", "n", "d">>, "float", "inHgToHPaTrend")>>

FIELD_SCHEMA ==
    <<Field(<<"t", "e", "m", "p">>, "float", "fahrenheitToCelsius"),
      Field(<<"h", "u", "m">>, "float", "none"),
      Field(<<"d", "e", "w", "_", "p", "o", "i", "n", "t">>, "float", "fahrenheitToCelsius"),
      Field(<<"h", "e", "a", "t", "_", "i", "n", "d", "e", "x">>, "float", "fahrenheitToCelsius"),
      Field(<<"w", "e", "t", "_", "b", "u", "l", "b">>, "float", "fahrenheitToCelsius"),
      Field(<<"p", "m", "_", "1">>, "float", "none"),
      Field(<<"p", "m", "_", "2", "p", "5">>, "float", "none"),
      Field(<<"p", "m", "_", "2", "p", "5", "_", "l", "a", "s", "t", "_", "1", "_", "h", "o", "u", "r">>, "float", "none"),
      Field(<<"p", "m", "_", "2", "p", "5", "_", "l", "a", "s", "t", "_", "3", "_", "h", "o", "u", "r", "s">>, "float", "none"),
      Field(<<"p", "m", "_", "2", "p", "5", "_", "l", "a", "s", "t", "_", "2", "4", "_", "h", "o", "u", "r", "s">>, "float", "none"),
      Field(<<"p", "m", "_", "2", "p", "5", "_", "n", "o", "w", "c", "a", "s", "t">>, "float", "none"),
      Field(<<"p", "m", "_", "1", "0">>, "float", "none"),
      Field(<<"p", "m", "_", "1", "0", "_", "l", "a", "s", "t", "_", "1", "_", "h", "o", "u", "r">>, "float", "none"),
      Field(<<"p", "m", "_", "1", "0", "_", "l", "a", "s", "t", "_", "3", "_", "h", "o", "u", "r", "s">>, "float", "none"),
      Field(<<"p", "m", "_", "1", "0", "_", "l", "a", "s", "t", "_", "2", "4", "_", "h", "o", "u", "r", "s">>, "float", "none"),
      Field(<<"p", "m", "_", "1", "0", "_", "n", "o", "w", "c", "a", "s", "t">>, "float", "none"),
      Field(<<"p", "m", "_", "1", "_", "l", "a", "s", "t">>, "int", "none"),
      Field(<<"p", "m", "_", "2", "p", "5", "_", "l", "a", "s", "t">>, "int", "none"),
      Field(<<"p", "m", "_", "1", "0", "_", "l", "a", "s", "t">>, "int", "none"),
      Field(<<"p", "c", "t", "_", "p", "m", "_", "d", "a", "t", "a", "_", "l", "a", "s", "t", "_", "1", "_", "h", "o", "u", "r">>, "int", "none"),
      Field(<<"p", "c", "t", "_", "p", "m", "_", "d", "a", "t", "a", "_", "l", "a", "s", "t", "_", "3", "_", "h", "o", "u", "r", "s">>, "int", "none"),
      Field(<<"p", "c", "t", "_", "p", "m", "_", "d", "a", "t", "a", "_", "l", "a", "s", "t", "_", "2", "4", "_", "h", "o", "u", "r", "s">>, "int", "none"),
      Field(<<"p", "c", "t", "_", "p", "m", "_", "d", "a", "t", "a", "_", "n", "o", "w", "c", "a", "s", "t">>, "int", "none")>>

\* ------------------------------------------------------------------------
\* Line protocol encoding
\* ------------------------------------------------------------------------

\* str.replace(/ch/g, rep): every occurrence of the character ch replaced.
RECURSIVE ReplaceAll(_, _, _)
ReplaceAll(str, ch, rep) ==
    IF str = <<>> THEN <<>>
    ELSE (IF Head(str) = ch THEN rep ELSE <<Head(str)>>) \o ReplaceAll(Tail(str), ch, rep)

\* The four replace passes with the backslash pass last instead of first.
escapeTagValueBackslashLast(v) ==
    ReplaceAll(
        ReplaceAll(
            ReplaceAll(
                ReplaceAll(String(v), ",", <<"\\", ",">>),
                "=", <<"\\", "=">>),
            " ", <<"\\", " ">>),
        "\\", <<"\\", "\\">>)

\* Line protocol escape function: four replace passes, the backslash first.
escapeTagValue(v) ==
    ReplaceAll(
        ReplaceAll(
            ReplaceAll(
                ReplaceAll(String(v), "\\", <<"\\", "\\">>),
                ",", <<"\\", ",">>),
            "=", <<"\\", "=">>),
        " ", <<"\\", " ">>)

\* parts.join(sep)
RECURSIVE Join(_, _)
Join(parts, sep) ==
    IF parts = <<>> THEN <<>>
    ELSE IF Len(parts) = 1 THEN parts[1]
    ELSE parts[1] \o sep \o Join(Tail(parts), sep)

LowerCase == <<"a", "b", "c", "d", "e", "f", "g", "h", "i", "j", "k", "l", "m", "n", "o", "p", "q", "r", "s", "t", "u", "v", "w", "x", "y", "z">>
UpperCase == <<"A", "B", "C", "D", "E", "F", "G", "H", "I", "J", "K", "L", "M", "N", "O", "P", "Q", "R", "S", "T", "U", "V", "W", "X", "Y", "Z">>

IsUpper(c) == \E i \in 1..26 : UpperCase[i] = c

LetterIndex(c) == CHOOSE i \in 1..26 : LowerCase[i] = c \/ UpperCase[i] = c

\* The primary collation weight of a key character (root collation): the
\* underscore before the digits, the digits before the letters, a letter's
\* two cases alike.  Keys hold letters, digits and underscores only.
PrimaryWeight(c) ==
    IF c = "_" THEN 0
    ELSE IF IsDigit(c) THEN 1 + DigitValue(c)
    ELSE 10 + LetterIndex(c)

\* The tertiary (case) weight: lower case before upper case.
TertiaryWeight(c) == IF IsUpper(c) THEN 1 ELSE 0

\* Lexicographic comparison of two sequences of weights: -1, 0 or 1.
RECURSIVE CompareWeights(_, _)
CompareWeights(x, y) ==
    IF x = <<>> THEN (IF y = <<>> THEN 0 ELSE -1)
    ELSE IF y = <<>> THEN 1
    ELSE IF Head(x) < Head(y) THEN -1
    ELSE IF Head(x) > Head(y) THEN 1
    ELSE CompareWeights(Tail(x), Tail(y))

\* a.localeCompare(b): the primary weights decide; the case only breaks a
\* primary tie.
localeCompare(a, b) ==
    LET p == CompareWeights([i \in 1..Len(a) |-> PrimaryWeight(a[i])],
                            [i \in 1..Len(b) |-> PrimaryWeight(b[i])])
    IN  IF p # 0 THEN p
        ELSE CompareWeights([i \in 1..Len(a) |-> TertiaryWeight(a[i])],
                            [i \in 1..Len(b) |-> TertiaryWeight(b[i])])

\* The byte of a key character (ASCII).
CharCode(c) ==
    IF c = "_" THEN 95
    ELSE IF IsDigit(c) THEN 48 + DigitValue(c)
    ELSE IF IsUpper(c) THEN 64 + LetterIndex(c)
    ELSE 96 + LetterIndex(c)

\* Byte-wise lexicographic comparison of two keys.
ByteCompare(a, b) ==
    CompareWeights([i \in 1..Len(a) |-> CharCode(a[i])], [i \in 1..Len(b) |-> CharCode(b[i])])

\* A comparator on the keys' bytes in the place of localeCompare.
TagOrderByBytes(x, y) == ByteCompare(x.k, y.k)

\* The comparator handed to sort: ([a], [b]) => a.localeCompare(b).
TagOrder(x, y) == localeCompare(x.k, y.k)

\* entries.sort(TagOrder): a stable insertion of each entry in turn.
RECURSIVE InsertTag(_, _)
InsertTag(e, sorted) ==
    IF sorted = <<>> THEN <<e>>
    ELSE IF TagOrder(e, Head(sorted)) < 0 THEN <<e>> \o sorted
    ELSE <<Head(sorted)>> \o InsertTag(e, Tail(sorted))

RECURSIVE SortTags(_)
SortTags(entries) ==
    IF entries = <<>> THEN <<>>
    ELSE InsertTag(entries[Len(entries)], SortTags(SubSeq(entries, 1, Len(entries) - 1)))

\* The tag string: the entries with a value, sorted by key, as key=value
\* pairs with the value escaped, joined by commas.  tags is the object's
\* entries in declaration order, each [k, v].
TagString(tags) ==
    LET kept == SortTags(SelectSeq(tags, LAMBDA e : ~IsNullish(e.v)))
    IN  Join([i \in 1..Len(kept) |-> kept[i].k \o <<"=">> \o escapeTagValue(kept[i].v)],
             <<",">>)

\* One field: name=value, an int with Math.floor and the suffix i.
FieldPair(f) ==
    IF f.type = "int" THEN f.k \o <<"=">> \o String(MathFloor(f.value)) \o <<"i">>
    ELSE f.k \o <<"=">> \o String(f.value)

FieldString(fields) ==
    Join([i \in 1..Len(fields) |-> FieldPair(fields[i])], <<",">>)

\* toLineProtocol without `if (!fieldStr) return null`.
toLineProtocolUnguarded(measurement, tags, fields, ts) ==
    Str(measurement \o <<",">> \o TagString(tags) \o <<" ">> \o FieldString(fields) \o <<" ">> \o ts)

\* Generate line protocol string; null when there is no field.  ts is the
\* timestamp's string.
toLineProtocol(measurement, tags, fields, ts) ==
    LET tagStr == TagString(tags)
        fieldStr == FieldString(fields)
    IN  IF fieldStr = <<>> THEN Null
        ELSE Str(measurement \o <<",">> \o tagStr \o <<" ">> \o fieldStr \o <<" ">> \o ts)

\* ------------------------------------------------------------------------
\* Field extraction
\* ------------------------------------------------------------------------

\* The value buildFields computes for one schema entry before its last test.
FieldValue(source, config) ==
    LET sourceKey == IF config.source # <<>> THEN config.source ELSE config.name
        value == Get(source, sourceKey)
    IN  IF IsNullish(value) THEN value
        ELSE IF config.convert # "none" THEN Convert(config.convert, value)
        ELSE value

\* Whether buildFields records the entry: neither continue is taken.
FieldKept(source, config) ==
    LET value == FieldValue(source, config)
    IN  ~(IsNullish(value) \/ NumberIsNaN(value))

\* The recorded entries in the reverse of schema order.
buildFieldsReversed(source, schema) ==
    LET kept == SelectSeq(schema, LAMBDA config : FieldKept(source, config))
    IN  [i \in 1..Len(kept) |->
            [k |-> kept[Len(kept) + 1 - i].name,
             value |-> FieldValue(source, kept[Len(kept) + 1 - i]),
             type |-> kept[Len(kept) + 1 - i].type]]

\* Build fields from schema: the recorded entries in schema order, each the
\* field name k with { value, type }.
buildFields(source, schema) ==
    LET kept == SelectSeq(schema, LAMBDA config : FieldKept(source, config))
    IN  [i \in 1..Len(kept) |->
            [k |-> kept[i].name, value |-> FieldValue(source, kept[i]), type |-> kept[i].type]]

\* ------------------------------------------------------------------------
\* Configuration
\* ------------------------------------------------------------------------

\* One tag of a tag object, in declaration order.
Tag(k, v) == [k |-> k, v |-> v]

\* { ...tags, sensor_id: v }: an own key keeps its place and takes the new
\* value, a new key goes last.
WithSensorId(tags, v) ==
    IF \E i \in 1..Len(tags) : tags[i].k = <<"s", "e", "n", "s", "o", "r", "_", "i", "d">>
    THEN [i \in 1..Len(tags) |-> IF tags[i].k = <<"s", "e", "n", "s", "o", "r", "_", "i", "d">> THEN Tag(<<"s", "e", "n", "s", "o", "r", "_", "i", "d">>, v) ELSE tags[i]]
    ELSE Append(tags, Tag(<<"s", "e", "n", "s", "o", "r", "_", "i", "d">>, v))

\* The CONFIG objects as shipped, of the WeatherLink node (outdoor, indoor,
\* barometer) and of the AirLink node (air).  outdoorTxId is the selector
\* the README documents for the CONFIG section.
DefaultConfig ==
    [outdoorTxId |-> 1,
     outdoor |-> [measurement |-> <<"o", "u", "t", "d", "o", "o", "r", "_", "c", "o", "n", "d", "i", "t", "i", "o", "n", "s">>,
                  tags |-> <<Tag(<<"s", "o", "u", "r", "c", "e">>, Str(<<"d", "a", "v", "i", "s">>)),
                             Tag(<<"l", "o", "c", "a", "t", "i", "o", "n">>, Str(<<"o", "u", "t", "s", "i", "d", "e">>)),
                             Tag(<<"f", "r", "i", "e", "n", "d", "l", "y", "_", "n", "a", "m", "e">>, Str(<<"D", "a", "v", "i", "s", " ", "O", "u", "t", "d", "o", "o", "r", " ", "I", "S", "S">>))>>],
     indoor |-> [measurement |-> <<"i", "n", "d", "o", "o", "r", "_", "c", "o", "n", "d", "i", "t", "i", "o", "n", "s">>,
                 tags |-> <<Tag(<<"s", "o", "u", "r", "c", "e">>, Str(<<"d", "a", "v", "i", "s">>)),
                            Tag(<<"l", "o", "c", "a", "t", "i", "o", "n">>, Str(<<"i", "n", "d", "o", "o", "r">>)),
                            Tag(<<"f", "r", "i", "e", "n", "d", "l", "y", "_", "n", "a", "m", "e">>, Str(<<"D", "a", "v", "i", "s", " ", "I", "n", "d", "o", "o", "r", " ", "C", "o", "n", "s", "o", "l", "e">>))>>],
     barometer |-> [measurement |-> <<"b", "a", "r", "o", "m", "e", "t", "e", "r">>,
                    tags |-> <<Tag(<<"s", "o", "u", "r", "c", "e">>, Str(<<"d", "a", "v", "i", "s">>)),
                               Tag(<<"l", "o", "c", "a", "t", "i", "o", "n">>, Str(<<"i", "n", "d", "o", "o", "r">>)),
                               Tag(<<"f", "r", "i", "e", "n", "d", "l", "y", "_", "n", "a", "m", "e">>, Str(<<"D", "a", "v", "i", "s", " ", "B", "a", "r", "o", "m", "e", "t", "e", "r">>))>>],
     air |-> [measurement |-> <<"a", "i", "r", "_", "q", "u", "a", "l", "i", "t", "y">>,
              tags |-> <<Tag(<<"s", "o", "u", "r", "c", "e">>, Str(<<"d", "a", "v", "i", "s", "_", "a", "i", "r", "l", "i", "n", "k">>)),
                         Tag(<<"l", "o", "c", "a", "t", "i", "o", "n">>, Str(<<"o", "u", "t", "s", "i", "d", "e">>)),
                         Tag(<<"f", "r", "i", "e", "n", "d", "l", "y", "_", "n", "a", "m", "e">>, Str(<<"D", "a", "v", "i", "s", " ", "A", "i", "r", "L", "i", "n", "k">>))>>]]

\* CONFIG edited to carry the same tag object in every category.
ConfigWithTags(tags) ==
    [DefaultConfig EXCEPT !.outdoor.tags = tags, !.indoor.tags = tags,
                          !.barometer.tags = tags, !.air.tags = tags]

\* ------------------------------------------------------------------------
\* The node's state
\* ------------------------------------------------------------------------

VARIABLES
    variant,      \* which function node runs: "weatherlink" or "airlink"
    CONFIG,       \* the node's CONFIG object
    received,     \* the payload as it arrived (history; the node overwrites msg.payload)
    msg,          \* msg.payload
    pc,           \* the statement the node is at
    data,         \* const data
    timestamp,    \* const timestamp, as its string
    outdoor,      \* const outdoor
    indoor,       \* const indoor
    bar,          \* const bar
    air,          \* const air (AirLink)
    tags,         \* const tags (AirLink)
    fields,       \* const fields (AirLink)
    lines,        \* const lines
    diagnostics,  \* the node.error and node.warn calls so far
    status,       \* the last node.status call
    returned      \* how the call ended: "msg", "null", "TypeError"; "pending" before

vars ==
    <<variant, CONFIG, received, msg, pc, data, timestamp, outdoor, indoor, bar, air, tags,
      fields, lines, diagnostics, status, returned>>

\* A message payload given as text: the JSON text of the value json, or
\* text that is not JSON at all.
Text(wellFormed, json) == [t |-> "string", wellFormed |-> wellFormed, json |-> json]

\* JSON.parse(text): the value, or a SyntaxError.
JSONParse(text) ==
    IF text.wellFormed THEN [threw |-> FALSE, value |-> text.json]
    ELSE [threw |-> TRUE, value |-> Undefined]

\* data.ts * 1000000000 as a string; ts carries thousandths.
TimestampString(ts) ==
    LET x == ToNumber(ts)
    IN  IF x.t = "NaN" THEN <<"N", "a", "N">>
        ELSE IF x.n < 0 THEN <<"-">> \o NatToString((-x.n) * (1000000000 \div Scale))
        ELSE NatToString(x.n * (1000000000 \div Scale))

\* The test of the outdoor find: c.data_structure_type === 1 && c.txid === 1.
IsOutdoor(c) ==
    StrictEqualsNumber(Get(c, <<"d", "a", "t", "a", "_", "s", "t", "r", "u", "c", "t", "u", "r", "e", "_", "t", "y", "p", "e">>), 1) /\ StrictEqualsNumber(Get(c, <<"t", "x", "i", "d">>), 1)

\* The test of the indoor find: c.data_structure_type === 4.
IsIndoor(c) == StrictEqualsNumber(Get(c, <<"d", "a", "t", "a", "_", "s", "t", "r", "u", "c", "t", "u", "r", "e", "_", "t", "y", "p", "e">>), 4)

\* The test of the barometer find: c.data_structure_type === 3.
IsBarometer(c) == StrictEqualsNumber(Get(c, <<"d", "a", "t", "a", "_", "s", "t", "r", "u", "c", "t", "u", "r", "e", "_", "t", "y", "p", "e">>), 3)

\* Reading a property of c throws a TypeError when c is null or undefined.
PropertyReadThrows(c) == IsNullish(c)

\* conditions.find(test): the elements are visited in order up to the first
\* match; visiting a null element throws.  test is "outdoor", "indoor" or
\* "barometer".
Matches(test, c) ==
    CASE test = "outdoor" -> IsOutdoor(c)
      [] test = "indoor" -> IsIndoor(c)
      [] test = "barometer" -> IsBarometer(c)

RECURSIVE FindIn(_, _)
FindIn(items, test) ==
    IF items = <<>> THEN [threw |-> FALSE, value |-> Undefined]
    ELSE IF PropertyReadThrows(Head(items)) THEN [threw |-> TRUE, value |-> Undefined]
    ELSE IF Matches(test, Head(items)) THEN [threw |-> FALSE, value |-> Head(items)]
    ELSE FindIn(Tail(items), test)

\* conditions.find(...) on any value: only an array has the method.
Find(conditions, test) ==
    IF conditions.t # "array" THEN [threw |-> TRUE, value |-> Undefined]
    ELSE FindIn(conditions.items, test)

\* conditions?.[0]
FirstCondition(conditions) ==
    IF conditions.t = "array" /\ conditions.items # <<>> THEN conditions.items[1]
    ELSE IF conditions.t = "string" /\ conditions.s # <<>> THEN Str(<<conditions.s[1]>>)
    ELSE IF conditions.t = "object" THEN Get(conditions, <<"0">>)
    ELSE Undefined

\* payload?.data
PayloadData(payload) == Get(payload, <<"d", "a", "t", "a">>)

\* The payload validation of the WeatherLink node.
InvalidPayload(payload) ==
    \/ ~Truthy(Get(PayloadData(payload), <<"t", "s">>))
    \/ ~Truthy(Get(PayloadData(payload), <<"c", "o", "n", "d", "i", "t", "i", "o", "n", "s">>))

\* The AirLink validation without its structure-type test.
InvalidAirLinkUntyped(payload) ==
    \/ ~Truthy(Get(PayloadData(payload), <<"t", "s">>))
    \/ ~Truthy(FirstCondition(Get(PayloadData(payload), <<"c", "o", "n", "d", "i", "t", "i", "o", "n", "s">>)))

\* The payload validation of the AirLink node.
InvalidAirLink(payload) ==
    \/ ~Truthy(Get(PayloadData(payload), <<"t", "s">>))
    \/ ~Truthy(FirstCondition(Get(PayloadData(payload), <<"c", "o", "n", "d", "i", "t", "i", "o", "n", "s">>)))
    \/ ~StrictEqualsNumber(
            Get(FirstCondition(Get(PayloadData(payload), <<"c", "o", "n", "d", "i", "t", "i", "o", "n", "s">>)), <<"d", "a", "t", "a", "_", "s", "t", "r", "u", "c", "t", "u", "r", "e", "_", "t", "y", "p", "e">>), 6)

\* data.did without the fallback.
SensorIdNoFallback(d) == Get(d, <<"d", "i", "d">>)

\* data.did || 'unknown'
SensorId(d) == IF Truthy(Get(d, <<"d", "i", "d">>)) THEN Get(d, <<"d", "i", "d">>) ELSE Str(<<"u", "n", "k", "n", "o", "w", "n">>)

Diagnostic(level, text) == [level |-> level, text |-> text]

NoStatus == [fill |-> "none", shape |-> "none", text |-> <<>>]

\* ------------------------------------------------------------------------
\* Processing logic: one action per statement block of the node
\* ------------------------------------------------------------------------

\* node.warn / node.error followed by return null.
ReturnNull(level, text) ==
    /\ diagnostics' = Append(diagnostics, Diagnostic(level, text))
    /\ returned' = "null"
    /\ pc' = "done"

\* An uncaught TypeError leaves the function.
Throw ==
    /\ returned' = "TypeError"
    /\ pc' = "done"
    /\ UNCHANGED diagnostics

\* Parse input (both nodes).
ParseInput ==
    /\ pc = "parse"
    /\ IF msg.payload.t = "string"
       THEN LET parsed == JSONParse(msg.payload)
            IN  IF parsed.threw
                THEN /\ ReturnNull("error", "JSON parsing error")
                     /\ UNCHANGED msg
                ELSE /\ msg' = [msg EXCEPT !.payload = parsed.value]
                     /\ pc' = "validate"
                     /\ UNCHANGED <<diagnostics, returned>>
       ELSE /\ pc' = "validate"
            /\ UNCHANGED <<msg, diagnostics, returned>>
    /\ UNCHANGED <<variant, CONFIG, received, data, timestamp, outdoor, indoor, bar, air, tags,
                   fields, lines, status>>

\* WeatherLink: the payload validation, then const data and const timestamp.
ValidatePayload ==
    /\ pc = "validate"
    /\ variant = "weatherlink"
    /\ IF InvalidPayload(msg.payload)
       THEN /\ ReturnNull("warn", "Invalid payload structure")
            /\ UNCHANGED <<data, timestamp>>
       ELSE /\ data' = PayloadData(msg.payload)
            /\ timestamp' = TimestampString(Get(PayloadData(msg.payload), <<"t", "s">>))
            /\ pc' = "find"
            /\ UNCHANGED <<diagnostics, returned>>
    /\ UNCHANGED <<variant, CONFIG, received, msg, outdoor, indoor, bar, air, tags, fields, lines,
                   status>>

\* WeatherLink: find data blocks by structure type, then const lines = [].
FindBlocks ==
    /\ pc = "find"
    /\ LET conditions == Get(data, <<"c", "o", "n", "d", "i", "t", "i", "o", "n", "s">>)
           o == Find(conditions, "outdoor")
           i == Find(conditions, "indoor")
           b == Find(conditions, "barometer")
       IN  IF o.threw \/ i.threw \/ b.threw
           THEN /\ Throw
                /\ UNCHANGED <<outdoor, indoor, bar>>
           ELSE /\ outdoor' = o.value
                /\ indoor' = i.value
                /\ bar' = b.value
                /\ pc' = "outdoor"
                /\ UNCHANGED <<diagnostics, returned>>
    /\ UNCHANGED <<variant, CONFIG, received, msg, data, timestamp, air, tags, fields, lines, status>>

\* lines after `if (line) lines.unshift(line)`: the line put first.
PushFirst(list, line) == IF Truthy(line) THEN <<line.s>> \o list ELSE list

\* lines after `if (line) lines.push(line)`.
Push(list, line) == IF Truthy(line) THEN Append(list, line.s) ELSE list

\* The line of the outdoor block.
OutdoorLine(config, d, block, ts) ==
    toLineProtocol(config.outdoor.measurement,
                   WithSensorId(config.outdoor.tags, SensorId(d)),
                   buildFields(block, OUTDOOR_SCHEMA), ts)

\* The line of the indoor block.
IndoorLine(config, block, ts) ==
    toLineProtocol(config.indoor.measurement, config.indoor.tags,
                   buildFields(block, INDOOR_SCHEMA), ts)

\* The line of the barometer block.
BarometerLine(config, block, ts) ==
    toLineProtocol(config.barometer.measurement, config.barometer.tags,
                   buildFields(block, BAROMETER_SCHEMA), ts)

\* WeatherLink: outdoor conditions.
OutdoorConditions ==
    /\ pc = "outdoor"
    /\ lines' = IF Truthy(outdoor)
                THEN Push(lines, OutdoorLine(CONFIG, data, outdoor, timestamp))
                ELSE lines
    /\ pc' = "indoor"
    /\ UNCHANGED <<variant, CONFIG, received, msg, data, timestamp, outdoor, indoor, bar, air, tags,
                   fields, diagnostics, status, returned>>

\* WeatherLink: indoor conditions.
IndoorConditions ==
    /\ pc = "indoor"
    /\ lines' = IF Truthy(indoor)
                THEN Push(lines, IndoorLine(CONFIG, indoor, timestamp))
                ELSE lines
    /\ pc' = "barometer"
    /\ UNCHANGED <<variant, CONFIG, received, msg, data, timestamp, outdoor, indoor, bar, air, tags,
                   fields, diagnostics, status, returned>>

\* WeatherLink: barometer.
Barometer ==
    /\ pc = "barometer"
    /\ lines' = IF Truthy(bar)
                THEN Push(lines, BarometerLine(CONFIG, bar, timestamp))
                ELSE lines
    /\ pc' = "finish"
    /\ UNCHANGED <<variant, CONFIG, received, msg, data, timestamp, outdoor, indoor, bar, air, tags,
                   fields, diagnostics, status, returned>>

\* WeatherLink: no valid data points, or the joined lines returned in msg.
Finish ==
    /\ pc = "finish"
    /\ IF Len(lines) = 0
       THEN /\ ReturnNull("warn", "No valid data points")
            /\ UNCHANGED <<msg, status>>
       ELSE /\ msg' = [msg EXCEPT !.payload = Str(Join(lines, <<"\n">>))]
            /\ status' = [fill |-> "green", shape |-> "dot",
                          text |-> NatToString(Len(lines)) \o <<" ", "p", "o", "i", "n", "t", "s">>]
            /\ returned' = "msg"
            /\ pc' = "done"
            /\ UNCHANGED diagnostics
    /\ UNCHANGED <<variant, CONFIG, received, data, timestamp, outdoor, indoor, bar, air, tags,
                   fields, lines>>

\* AirLink: the payload validation, then const data, air and timestamp.
ValidateAirLink ==
    /\ pc = "validate"
    /\ variant = "airlink"
    /\ IF InvalidAirLink(msg.payload)
       THEN /\ ReturnNull("warn", "Invalid AirLink JSON structure - skipped")
            /\ UNCHANGED <<data, air, timestamp>>
       ELSE /\ data' = PayloadData(msg.payload)
            /\ air' = FirstCondition(Get(PayloadData(msg.payload), <<"c", "o", "n", "d", "i", "t", "i", "o", "n", "s">>))
            /\ timestamp' = TimestampString(Get(PayloadData(msg.payload), <<"t", "s">>))
            /\ pc' = "build"
            /\ UNCHANGED <<diagnostics, returned>>
    /\ UNCHANGED <<variant, CONFIG, received, msg, outdoor, indoor, bar, tags, fields, lines, status>>

\* AirLink: build tags, build fields from schema, no valid data to write.
BuildAirLink ==
    /\ pc = "build"
    /\ tags' = WithSensorId(CONFIG.air.tags, SensorId(data))
    /\ fields' = buildFields(air, FIELD_SCHEMA)
    /\ IF Len(fields') = 0
       THEN /\ ReturnNull("warn", "No valid data to write")
            /\ status' = [fill |-> "red", shape |-> "ring", text |-> <<"N", "o", " ", "d", "a", "t", "a">>]
       ELSE /\ pc' = "output"
            /\ UNCHANGED <<diagnostics, status, returned>>
    /\ UNCHANGED <<variant, CONFIG, received, msg, data, timestamp, outdoor, indoor, bar, air, lines>>

\* AirLink: output.
OutputAirLink ==
    /\ pc = "output"
    /\ msg' = [msg EXCEPT !.payload = toLineProtocol(CONFIG.air.measurement, tags, fields,
                                                      timestamp)]
    /\ status' = [fill |-> "green", shape |-> "dot", text |-> <<"A", "i", "r", "L", "i", "n", "k", " ", "O", "K">>]
    /\ returned' = "msg"
    /\ pc' = "done"
    /\ UNCHANGED <<variant, CONFIG, received, data, timestamp, outdoor, indoor, bar, air, tags,
                   fields, lines, diagnostics>>

Next ==
    \/ ParseInput
    \/ ValidatePayload
    \/ FindBlocks
    \/ OutdoorConditions
    \/ IndoorConditions
    \/ Barometer
    \/ Finish
    \/ ValidateAirLink
    \/ BuildAirLink
    \/ OutputAirLink

\* ------------------------------------------------------------------------
\* The messages and configurations the model runs the nodes on
\* ------------------------------------------------------------------------

\* The longest data.conditions array of the structure inputs.
MaxConditions == 3
\* The most schema-probing keys one sub-report of the field inputs carries.
MaxFields == 2
\* The most tags a configured tag object of the tag inputs declares.
MaxTags == 2
\* The longest device id of the device-id inputs.
MaxStrLen == 2

NoProps == [k \in {} |-> Undefined]

\* A property of an object literal; an undefined value stands for a key
\* the object does not have.
Prop(key, v) == IF v.t = "undefined" THEN NoProps ELSE key :> v

\* { data: { ts, did, conditions } }
Reading(ts, did, conditions) ==
    Obj(<<"d", "a", "t", "a">> :> Obj(Prop(<<"t", "s">>, ts) @@ Prop(<<"d", "i", "d">>, did) @@ Prop(<<"c", "o", "n", "d", "i", "t", "i", "o", "n", "s">>, conditions)))

\* { data_structure_type, txid, ...values }
SubReport(type, txid, values) ==
    Obj(Prop(<<"d", "a", "t", "a", "_", "s", "t", "r", "u", "c", "t", "u", "r", "e", "_", "t", "y", "p", "e">>, type) @@ Prop(<<"t", "x", "i", "d">>, txid) @@ values)

OutdoorTx1 == SubReport(Num(1 * Scale), Num(1 * Scale), <<"t", "e", "m", "p">> :> Num(32 * Scale))
OutdoorTx2 == SubReport(Num(1 * Scale), Num(2 * Scale), <<"h", "u", "m">> :> Num(50 * Scale))
IndoorBlock == SubReport(Num(4 * Scale), Undefined, <<"h", "u", "m", "_", "i", "n">> :> Num(40 * Scale))
BarBlock == SubReport(Num(3 * Scale), Undefined, <<"b", "a", "r", "_", "t", "r", "e", "n", "d">> :> Num(-82))
AirBlock == SubReport(Num(6 * Scale), Undefined, <<"p", "m", "_", "1", "_", "l", "a", "s", "t">> :> Num(7 * Scale))

Variants == {"weatherlink", "airlink"}

\* A message arrives at a node: nothing has run yet.
Start(v, config, payload) ==
    /\ variant = v
    /\ CONFIG = config
    /\ received = payload
    /\ msg = [payload |-> payload]
    /\ pc = "parse"
    /\ data = Undefined
    /\ timestamp = <<>>
    /\ outdoor = Undefined
    /\ indoor = Undefined
    /\ bar = Undefined
    /\ air = Undefined
    /\ tags = <<>>
    /\ fields = <<>>
    /\ lines = <<>>
    /\ diagnostics = <<>>
    /\ status = NoStatus
    /\ returned = "pending"

\* Structure inputs: every short conditions array over a pool of entries,
\* under each documented outdoor transmitter id.
ConditionPool ==
    {OutdoorTx1, OutdoorTx2, IndoorBlock, BarBlock, AirBlock, Null, Num(5 * Scale)}

OutdoorTxIds == {1, 2}

StructureInputs ==
    \E v \in Variants, t \in OutdoorTxIds, k \in 0..MaxConditions :
        \E items \in [1..k -> ConditionPool] :
            Start(v, [DefaultConfig EXCEPT !.outdoorTxId = t],
                  Reading(Num(1 * Scale), Str(<<"A", "1">>), Arr(items)))

\* Envelope inputs: the shapes of the document around the sub-reports, each
\* as a parsed value and as JSON text, and text that is not JSON.
EnvelopeConditions ==
    {Undefined, Null, Num(0), Num(5 * Scale), Str(<<>>), Str(<<"a", "b">>), Obj(NoProps),
     Arr(<<>>), Arr(<<AirBlock>>), Arr(<<OutdoorTx1, IndoorBlock, BarBlock>>)}

EnvelopeDocuments ==
    {Null, Num(5 * Scale), Obj(NoProps)} \cup
    {Reading(ts, Str(<<"A", "1">>), c) :
        ts \in {Undefined, Num(0), Num(1 * Scale)}, c \in EnvelopeConditions}

EnvelopeInputs ==
    \E v \in Variants :
        \/ \E d \in EnvelopeDocuments, asText \in BOOLEAN :
              Start(v, DefaultConfig, IF asText THEN Text(TRUE, d) ELSE d)
        \/ Start(v, DefaultConfig, Text(FALSE, Undefined))

\* Field inputs: one sub-report of each kind carrying a few of the keys that
\* probe its schema (a converted float, a plain float, an int, a key the
\* schema does not name), each with every kind of value.
FieldValues ==
    {Null, NaN, Num(180 * Scale), Num(180900), Num(-2500), Str(<<"5">>), Str(<<"a">>), Str(<<>>)}

ProbeKeys(kind) ==
    CASE kind = "outdoor" -> {<<"t", "e", "m", "p">>, <<"h", "u", "m">>, <<"w", "i", "n", "d", "_", "d", "i", "r", "_", "l", "a", "s", "t">>, <<"f", "o", "o">>}
      [] kind = "indoor" -> {<<"t", "e", "m", "p", "_", "i", "n">>, <<"h", "u", "m", "_", "i", "n">>, <<"f", "o", "o">>}
      [] kind = "barometer" -> {<<"b", "a", "r", "_", "s", "e", "a", "_", "l", "e", "v", "e", "l">>, <<"b", "a", "r", "_", "t", "r", "e", "n", "d">>, <<"f", "o", "o">>}
      [] kind = "air" -> {<<"t", "e", "m", "p">>, <<"h", "u", "m">>, <<"p", "m", "_", "1", "_", "l", "a", "s", "t">>, <<"f", "o", "o">>}

KindType(kind) ==
    CASE kind = "outdoor" -> 1
      [] kind = "indoor" -> 4
      [] kind = "barometer" -> 3
      [] kind = "air" -> 6

\* The conditions arrays a probing sub-report is sent in: alone, and (a
\* WeatherLink one) followed by a sub-report of another kind.
ProbeConditions(kind, block) ==
    CASE kind = "outdoor" -> {<<block>>, <<block, IndoorBlock>>}
      [] kind \in {"indoor", "barometer"} -> {<<block>>, <<block, OutdoorTx1>>}
      [] kind = "air" -> {<<block>>}

FieldInputs ==
    \E kind \in {"outdoor", "indoor", "barometer", "air"} :
        \E K \in SUBSET ProbeKeys(kind) :
            /\ Cardinality(K) <= MaxFields
            /\ \E values \in [K -> FieldValues] :
                  \E items \in ProbeConditions(kind,
                                  SubReport(Num(KindType(kind) * Scale),
                                            IF kind = "outdoor" THEN Num(1 * Scale) ELSE Undefined,
                                            values)) :
                      Start(IF kind = "air" THEN "airlink" ELSE "weatherlink", DefaultConfig,
                            Reading(Num(1 * Scale), Str(<<"A", "1">>), Arr(items)))

\* Tag inputs: CONFIG edited to declare other tag objects, in every order.
TagKeys == {<<"s", "o", "u", "r", "c", "e">>, <<"S", "o", "u", "r", "c", "e">>, <<"l", "o", "c", "a", "t", "i", "o", "n">>, <<"s", "e", "n", "s", "o", "r", "_", "i", "d">>}

TagValues == {Null, Str(<<"d">>)}

FullConditions(v) ==
    IF v = "airlink" THEN Arr(<<AirBlock>>) ELSE Arr(<<OutdoorTx1, IndoorBlock, BarBlock>>)

TagInputs ==
    \E v \in Variants, k \in 0..MaxTags :
        \E keys \in [1..k -> TagKeys], values \in [1..k -> TagValues] :
            /\ \A i, j \in 1..k : keys[i] = keys[j] => i = j
            /\ Start(v, ConfigWithTags([i \in 1..k |-> Tag(keys[i], values[i])]),
                     Reading(Num(1 * Scale), Str(<<"A", "1">>), FullConditions(v)))

\* Device-id inputs: data.did absent, null, a number, and every short string
\* over the characters the escape function treats and one it does not.
EscapeAlphabet == {"a", "\\", ",", "=", " "}

DeviceIdInputs ==
    \E v \in Variants :
        \/ \E did \in {Undefined, Null, Num(0), Num(7 * Scale)} :
              Start(v, DefaultConfig, Reading(Num(1 * Scale), did, FullConditions(v)))
        \/ \E k \in 0..MaxStrLen :
              \E str \in [1..k -> EscapeAlphabet] :
                  Start(v, DefaultConfig, Reading(Num(1 * Scale), Str(str), FullConditions(v)))

Init ==
    \/ StructureInputs
    \/ EnvelopeInputs
    \/ FieldInputs
    \/ TagInputs
    \/ DeviceIdInputs

Spec == Init /\ [][Next]_vars

\* ------------------------------------------------------------------------
\* Reading an encoded line back
\* ------------------------------------------------------------------------

Range(seq) == {seq[i] : i \in 1..Len(seq)}

\* The number of backslashes that end just before position i.
RECURSIVE BackslashesBefore(_, _)
BackslashesBefore(str, i) ==
    IF i > 1 /\ str[i - 1] = "\\" THEN 1 + BackslashesBefore(str, i - 1) ELSE 0

\* The positions of the character ch that no backslash escapes.
Separators(str, ch) ==
    {i \in 1..Len(str) : str[i] = ch /\ BackslashesBefore(str, i) % 2 = 0}

\* str cut at every unescaped ch.
RECURSIVE Split(_, _)
Split(str, ch) ==
    LET seps == Separators(str, ch)
    IN  IF seps = {} THEN <<str>>
        ELSE LET p == CHOOSE i \in seps : \A j \in seps : i <= j
             IN  <<SubSeq(str, 1, p - 1)>> \o Split(SubSeq(str, p + 1, Len(str)), ch)

StartsWith(str, prefix) ==
    Len(str) >= Len(prefix) /\ SubSeq(str, 1, Len(prefix)) = prefix

\* A line's sections: measurement and tags, fields, timestamp.
Sections(line) == Split(line, " ")

\* name=value read back as [k, v]: cut at the first unescaped equals sign.
Pair(text) ==
    LET k == Split(text, "=")[1]
    IN  [k |-> k, v |-> SubSeq(text, Len(k) + 2, Len(text)), eq |-> Len(k) < Len(text)]

\* A line's tag string: what follows the comma after the measurement name
\* in the first section.
TagStringOf(line) ==
    LET head == Sections(line)[1]
    IN  SubSeq(head, Len(Split(head, ",")[1]) + 2, Len(head))

\* The tag pairs of a line, in the order they are written.
TagPairs(line) ==
    LET tagStr == TagStringOf(line)
        parts == Split(tagStr, ",")
    IN  IF tagStr = <<>> THEN <<>> ELSE [i \in 1..Len(parts) |-> Pair(parts[i])]

\* The field pairs of a line, in the order they are written.
FieldPairs(line) ==
    LET secs == Sections(line)
    IN  IF Len(secs) < 2 \/ secs[2] = <<>> THEN <<>>
        ELSE LET parts == Split(secs[2], ",") IN [i \in 1..Len(parts) |-> Pair(parts[i])]

\* An escaped tag value read back: one backslash dropped before each
\* escaped character.
RECURSIVE Unescape(_)
Unescape(str) ==
    IF str = <<>> THEN <<>>
    ELSE IF Head(str) = "\\" /\ Len(str) >= 2 THEN <<str[2]>> \o Unescape(SubSeq(str, 3, Len(str)))
    ELSE <<Head(str)>> \o Unescape(Tail(str))

\* The lines of the payload the node returned.
ReturnedLines ==
    IF returned = "msg" /\ msg.payload.t = "string" THEN Range(Split(msg.payload.s, "\n"))
    ELSE {}

\* Every line the node has produced so far: pushed or returned.
EmittedLines == Range(lines) \cup ReturnedLines

\* The document the node works on: the payload received, parsed if text.
Document == IF received.t = "string" THEN received.json ELSE received

ReceivedConditions == Get(Get(Document, <<"d", "a", "t", "a">>), <<"c", "o", "n", "d", "i", "t", "i", "o", "n", "s">>)

ReceivedDid == Get(Get(Document, <<"d", "a", "t", "a">>), <<"d", "i", "d">>)

\* The categories of the running node, each with its measurement and
\* configured tags, its schema and the sub-report it selected.
CategoryNames == IF variant = "weatherlink" THEN {"outdoor", "indoor", "barometer"} ELSE {"air"}

Category(name) ==
    CASE name = "outdoor" -> [config |-> CONFIG.outdoor, schema |-> OUTDOOR_SCHEMA, block |-> outdoor]
      [] name = "indoor" -> [config |-> CONFIG.indoor, schema |-> INDOOR_SCHEMA, block |-> indoor]
      [] name = "barometer" -> [config |-> CONFIG.barometer, schema |-> BAROMETER_SCHEMA, block |-> bar]
      [] name = "air" -> [config |-> CONFIG.air, schema |-> FIELD_SCHEMA, block |-> air]

\* The emitted lines of a category: those that open with its measurement.
LinesOf(cat) == {line \in EmittedLines : StartsWith(line, cat.config.measurement \o <<",">>)}

\* The schema entry of a field name; the name must be in the schema.
SchemaEntry(schema, name) == schema[CHOOSE i \in 1..Len(schema) : schema[i].name = name]

InSchema(schema, name) == \E i \in 1..Len(schema) : schema[i].name = name

\* ------------------------------------------------------------------------
\* C1: empty-field suppression
\* ------------------------------------------------------------------------

\* A line has a field section holding at least one name=value pair.
HasField(line) ==
    LET secs == Sections(line)
        pairs == FieldPairs(line)
    IN  /\ Len(secs) = 3
        /\ secs[2] # <<>>
        /\ \E i \in 1..Len(pairs) : pairs[i].k # <<>> /\ pairs[i].eq

\* C1: in both variants no emitted line has an empty field section: every
\* line pushed or returned holds at least one name=value field between the
\* tag section and the timestamp, and a selected sub-report whose schema
\* extraction yields zero fields contributes no line (AirLink: no output).
C1_NoEmptyFieldSection ==
    /\ \A line \in EmittedLines : HasField(line)
    /\ returned = "msg" => msg.payload.t = "string"
    /\ \A name \in CategoryNames :
          LET cat == Category(name)
          IN  (Truthy(cat.block) /\ buildFields(cat.block, cat.schema) = <<>>)
                  => (LinesOf(cat) = {} /\ (variant = "airlink" => returned # "msg"))

\* C1 witness: the WeatherLink node returned a payload although the outdoor
\* sub-report it selected yielded no field: only the indoor line is there.
C1_Witness ==
    /\ pc = "done" /\ returned = "msg" /\ variant = "weatherlink"
    /\ Truthy(outdoor) /\ buildFields(outdoor, OUTDOOR_SCHEMA) = <<>>
    /\ Truthy(indoor) /\ Len(lines) = 1
    /\ LinesOf(Category("indoor")) # {}

\* ------------------------------------------------------------------------
\* C2: omission of values that are not numbers
\* ------------------------------------------------------------------------

AllDigits(text) == text # <<>> /\ \A i \in 1..Len(text) : IsDigit(text[i])

\* text is a decimal number: an optional sign, digits, an optional fraction.
IsDecimal(text) ==
    LET body == IF text # <<>> /\ Head(text) = "-" THEN Tail(text) ELSE text
        parts == Split(body, ".")
    IN  /\ Len(parts) \in {1, 2}
        /\ \A i \in 1..Len(parts) : AllDigits(parts[i])

\* text is a field value of the line protocol: a decimal, or an integer
\* with the suffix i.
IsNumericFieldValue(text) ==
    \/ IsDecimal(text)
    \/ /\ text # <<>> /\ text[Len(text)] = "i"
       /\ IsDecimal(SubSeq(text, 1, Len(text) - 1))
       /\ Separators(text, ".") = {}

\* The source value is a number: not absent, not null, and not NaN as a number.
IsValidNumber(v) == ~IsNullish(v) /\ ToNumber(v).t = "number"

\* C2: every emitted field carries a numeric value, and a schema field
\* whose source value is absent, null or not a valid number is not emitted.
C2_OnlyNumbersEncoded ==
    \A name \in CategoryNames :
        \A line \in LinesOf(Category(name)) :
            LET pairs == FieldPairs(line)
            IN  \A i \in 1..Len(pairs) :
                    /\ IsNumericFieldValue(pairs[i].v)
                    /\ IsValidNumber(Get(Category(name).block, pairs[i].k))

\* ------------------------------------------------------------------------
\* C3: the integer suffix
\* ------------------------------------------------------------------------

\* The value of a signed string of digits.
SignedValue(text) ==
    IF Head(text) = "-" THEN -DigitsToNat(Tail(text)) ELSE DigitsToNat(text)

\* The thousandths n cut toward zero to a whole number.
TruncateTowardZero(n) ==
    IF n >= 0 THEN (n \div Scale) * Scale ELSE -(((-n) \div Scale) * Scale)

\* The emitted pairs of the fields a schema types `type` whose source value
\* is a number, each with that number's thousandths.
PairsOfLine(cat, line, type) ==
    LET pairs == FieldPairs(line)
    IN  {[text |-> pairs[i].v, n |-> Get(cat.block, pairs[i].k).n] :
            i \in {j \in 1..Len(pairs) :
                    /\ InSchema(cat.schema, pairs[j].k)
                    /\ SchemaEntry(cat.schema, pairs[j].k).type = type
                    /\ Get(cat.block, pairs[j].k).t = "number"}}

NumberPairs(type) ==
    UNION {UNION {PairsOfLine(Category(name), line, type) : line \in LinesOf(Category(name))} :
           name \in CategoryNames}

\* C3 as claimed: an Integer field with numeric value v is emitted as v
\* truncated toward zero followed by i; a Float field has no suffix.
C3_IntegerTruncatedTowardZero ==
    /\ \A p \in NumberPairs("int") : p.text = NumberToString(TruncateTowardZero(p.n)) \o <<"i">>
    /\ \A p \in NumberPairs("float") : p.text[Len(p.text)] # "i"

\* C3 amended: an Integer field with numeric value v is emitted as the
\* whole number k with k <= v < k + 1 (v rounded toward minus infinity)
\* followed by i; a Float field has no suffix.
C3_IntegerFloored ==
    /\ \A p \in NumberPairs("int") :
          LET digits == SubSeq(p.text, 1, Len(p.text) - 1)
          IN  /\ p.text[Len(p.text)] = "i"
              /\ IsDecimal(digits) /\ Separators(digits, ".") = {}
              /\ SignedValue(digits) * Scale <= p.n
              /\ p.n < (SignedValue(digits) + 1) * Scale
    /\ \A p \in NumberPairs("float") : p.text # <<>> /\ p.text[Len(p.text)] # "i"

\* C3 witness: a line was returned whose Integer field wind_dir_last came
\* from the negative non-integer -2.5.
C3_Witness ==
    /\ pc = "done" /\ returned = "msg" /\ variant = "weatherlink"
    /\ Get(outdoor, <<"w", "i", "n", "d", "_", "d", "i", "r", "_", "l", "a", "s", "t">>) = Num(-2500)
    /\ \E p \in NumberPairs("int") : p.n = -2500

\* ------------------------------------------------------------------------
\* C4: the comma between the measurement name and the tag string
\* ------------------------------------------------------------------------

\* The tag object a category's line is encoded with.
TagsGiven(name) ==
    IF name \in {"outdoor", "air"}
    THEN WithSensorId(Category(name).config.tags, SensorId(data))
    ELSE Category(name).config.tags

NoTagSurvives(tagSeq) == \A i \in 1..Len(tagSeq) : tagSeq[i].v.t \in {"null", "undefined"}

\* C4: a line whose tag object is empty or holds only null values is the
\* measurement name followed directly by a space; a line with a surviving
\* tag has exactly one comma between the measurement name and the tags.
C4_NoCommaBeforeEmptyTagString ==
    \A name \in CategoryNames :
        LET m == Category(name).config.measurement
        IN  \A line \in {l \in EmittedLines : StartsWith(l, m)} :
                IF NoTagSurvives(TagsGiven(name))
                THEN line[Len(m) + 1] = " "
                ELSE /\ line[Len(m) + 1] = ","
                     /\ line[Len(m) + 2] \notin {",", " "}

\* ------------------------------------------------------------------------
\* C5: the outdoor transmitter id
\* ------------------------------------------------------------------------

\* c is a type-1 sub-report of transmitter t.
IsOutdoorOf(c, t) ==
    /\ c.t = "object"
    /\ Get(c, <<"d", "a", "t", "a", "_", "s", "t", "r", "u", "c", "t", "u", "r", "e", "_", "t", "y", "p", "e">>) = Num(1 * Scale)
    /\ Get(c, <<"t", "x", "i", "d">>) = Num(t * Scale)

\* C5: once the WeatherLink node has found its blocks, the outdoor block is
\* a type-1 sub-report of the configured transmitter CONFIG.outdoorTxId,
\* and there is one whenever the input holds such a sub-report.
C5_OutdoorOfConfiguredTransmitter ==
    (variant = "weatherlink" /\ pc \in {"outdoor", "indoor", "barometer", "finish"}) =>
        /\ Truthy(outdoor) => IsOutdoorOf(outdoor, CONFIG.outdoorTxId)
        /\ (\E c \in Range(ReceivedConditions.items) : IsOutdoorOf(c, CONFIG.outdoorTxId))
              => Truthy(outdoor)

\* ------------------------------------------------------------------------
\* C6, C7: how a conversion ends
\* ------------------------------------------------------------------------

\* C6: no conversion ends with an uncaught exception.
C6_NeverThrows == returned # "TypeError"

\* The text received is not valid JSON.
ReceivedMalformedText == received.t = "string" /\ ~received.wellFormed

\* C7: a finished conversion either returned the output string with no
\* diagnostic, or returned no output with exactly one diagnostic: an error
\* when the text was not valid JSON, a warning otherwise.
C7_OneClassifiedDiagnostic ==
    pc = "done" =>
        \/ /\ returned = "msg"
           /\ msg.payload.t = "string"
           /\ diagnostics = <<>>
        \/ /\ returned = "null"
           /\ Len(diagnostics) = 1
           /\ diagnostics[1].level = IF ReceivedMalformedText THEN "error" ELSE "warn"

\* ------------------------------------------------------------------------
\* C8: the AirLink payload validation
\* ------------------------------------------------------------------------

\* The AirLink node went past its payload validation.
AirLinkAccepted ==
    variant = "airlink" /\ (pc \in {"build", "output"} \/ (pc = "done" /\ air # Undefined))

\* c is a sub-report of structure type 6.
IsAirReport(c) == c.t = "object" /\ Get(c, <<"d", "a", "t", "a", "_", "s", "t", "r", "u", "c", "t", "u", "r", "e", "_", "t", "y", "p", "e">>) = Num(6 * Scale)

\* C8 as claimed: an input is accepted only when data.conditions holds
\* exactly one sub-report, of structure type 6.
C8_AcceptedOnlyWithExactlyOneReport ==
    AirLinkAccepted =>
        /\ ReceivedConditions.t = "array"
        /\ Len(ReceivedConditions.items) = 1
        /\ IsAirReport(ReceivedConditions.items[1])

\* C8 amended: an input is accepted only when the first entry of
\* data.conditions is a sub-report of structure type 6 (later entries are
\* not looked at); when the first entry is absent or is anything else the
\* input is rejected with the structural warning before any tag or field
\* is built, and nothing is returned.
C8_AcceptedOnlyWithLeadingAirReport ==
    /\ AirLinkAccepted =>
          /\ ReceivedConditions.t = "array"
          /\ Len(ReceivedConditions.items) >= 1
          /\ IsAirReport(ReceivedConditions.items[1])
    /\ (variant = "airlink" /\ pc = "done" /\ ~ReceivedMalformedText
          /\ ~(/\ ReceivedConditions.t = "array"
               /\ Len(ReceivedConditions.items) >= 1
               /\ IsAirReport(ReceivedConditions.items[1]))) =>
          /\ returned = "null"
          /\ diagnostics = <<Diagnostic("warn", "Invalid AirLink JSON structure - skipped")>>
          /\ air = Undefined /\ tags = <<>> /\ fields = <<>>
          /\ msg.payload = Document

\* C8 witness: the AirLink node returned a line for a conditions array that
\* holds a second sub-report after the type-6 one.
C8_Witness ==
    /\ variant = "airlink" /\ pc = "done" /\ returned = "msg"
    /\ Len(ReceivedConditions.items) >= 2

\* ------------------------------------------------------------------------
\* C9: the sensor_id tag
\* ------------------------------------------------------------------------

\* The values of the tags named sensor_id in a line, unescaped.
SensorIdValues(line) ==
    LET own == SelectSeq(TagPairs(line), LAMBDA p : p.k = <<"s", "e", "n", "s", "o", "r", "_", "i", "d">>)
    IN  [i \in 1..Len(own) |-> Unescape(own[i].v)]

\* C9 as claimed: every emitted record carries a sensor_id tag whose value
\* is data.did, or unknown when data.did is absent.
C9_EveryRecordHasSensorId ==
    \A line \in EmittedLines :
        SensorIdValues(line) =
            <<IF ReceivedDid.t \in {"undefined", "null"} THEN <<"u", "n", "k", "n", "o", "w", "n">> ELSE String(ReceivedDid)>>

\* data.did is absent, null, the empty string or zero.
DidIsFalsy ==
    \/ ReceivedDid.t \in {"undefined", "null", "NaN"}
    \/ ReceivedDid.t = "string" /\ ReceivedDid.s = <<>>
    \/ ReceivedDid.t = "number" /\ ReceivedDid.n = 0

\* The value CONFIG gives the tag sensor_id of a category, as a sequence:
\* empty when the category declares none or declares it null.
ConfiguredSensorId(name) ==
    LET own == SelectSeq(Category(name).config.tags,
                         LAMBDA e : e.k = <<"s", "e", "n", "s", "o", "r", "_", "i", "d">> /\ e.v.t \notin {"null", "undefined"})
    IN  [i \in 1..Len(own) |-> String(own[i].v)]

\* C9 amended: every emitted outdoor and air-quality record carries exactly
\* one sensor_id tag, whose value is data.did as a string, or unknown when
\* data.did is absent, null, empty or zero; an indoor or barometer record
\* carries only the tags CONFIG declares for it (no sensor_id from the
\* reading).
C9_OutdoorAndAirHaveSensorId ==
    \A name \in CategoryNames :
        \A line \in LinesOf(Category(name)) :
            IF name \in {"outdoor", "air"}
            THEN SensorIdValues(line) = <<IF DidIsFalsy THEN <<"u", "n", "k", "n", "o", "w", "n">> ELSE String(ReceivedDid)>>
            ELSE SensorIdValues(line) = ConfiguredSensorId(name)

\* C9 witness: the WeatherLink node returned all three records for a
\* reading without data.did.
C9_Witness ==
    /\ pc = "done" /\ returned = "msg" /\ variant = "weatherlink"
    /\ ReceivedDid.t = "undefined"
    /\ \A name \in CategoryNames : LinesOf(Category(name)) # {}

\* ------------------------------------------------------------------------
\* C10: the tag string
\* ------------------------------------------------------------------------

\* The tags that survive, as the set of <<key, value as a string>>.
SurvivingTags(tagSeq) ==
    {<<tagSeq[i].k, String(tagSeq[i].v)>> :
        i \in {j \in 1..Len(tagSeq) : tagSeq[j].v.t \notin {"null", "undefined"}}}

\* Tag pairs read back, as the set of <<key, unescaped value>>.
WrittenTags(pairs) == {<<pairs[i].k, Unescape(pairs[i].v)>> : i \in 1..Len(pairs)}

\* A line's tags are exactly the surviving tags of the tag object, each
\* written once as key=value.
ListsSurvivingTags(line, tagSeq) ==
    LET pairs == TagPairs(line)
        surviving == SurvivingTags(tagSeq)
    IN  /\ \A i \in 1..Len(pairs) : pairs[i].eq
        /\ WrittenTags(pairs) = surviving
        /\ Len(pairs) = Cardinality(surviving)

\* The keys of a line's tags, in the order they are written.
TagKeysOf(line) == LET pairs == TagPairs(line) IN [i \in 1..Len(pairs) |-> pairs[i].k]

\* C10 as claimed: the tag string lists exactly the surviving tags, each
\* once, ordered by key in byte-wise lexicographic order.
C10_TagsInByteOrder ==
    \A name \in CategoryNames :
        \A line \in LinesOf(Category(name)) :
            /\ ListsSurvivingTags(line, TagsGiven(name))
            /\ LET keys == TagKeysOf(line)
               IN  \A i \in 1..(Len(keys) - 1) : ByteCompare(keys[i], keys[i + 1]) < 0

\* C10 amended: the tag string lists exactly the surviving tags, each once,
\* ordered by key as localeCompare orders them: by letter without regard
\* to case, a lower-case key before the upper-case key of the same letters.
C10_TagsInLocaleOrder ==
    \A name \in CategoryNames :
        \A line \in LinesOf(Category(name)) :
            /\ ListsSurvivingTags(line, TagsGiven(name))
            /\ LET keys == TagKeysOf(line)
               IN  \A i \in 1..(Len(keys) - 1) : localeCompare(keys[i], keys[i + 1]) < 0

\* C10 witness: a record was returned whose CONFIG declares the tag Source
\* before the tag location, both with a value.
C10_Witness ==
    /\ pc = "done" /\ returned = "msg" /\ variant = "weatherlink"
    /\ CONFIG.indoor.tags = <<Tag(<<"S", "o", "u", "r", "c", "e">>, Str(<<"d">>)), Tag(<<"l", "o", "c", "a", "t", "i", "o", "n">>, Str(<<"d">>))>>
    /\ LinesOf(Category("indoor")) # {}

\* ------------------------------------------------------------------------
\* C11: escaping of tag values
\* ------------------------------------------------------------------------

\* The characters the escape function treats.
EscapedCharacters == {"\\", ",", "=", " "}

\* A value with each backslash, comma, equals sign and space replaced by a
\* backslash followed by that same character, every other character kept.
RECURSIVE EscapedOnce(_)
EscapedOnce(str) ==
    IF str = <<>> THEN <<>>
    ELSE (IF Head(str) \in EscapedCharacters THEN <<"\\", Head(str)>> ELSE <<Head(str)>>)
         \o EscapedOnce(Tail(str))

\* The tag values as written in a line, by key.
WrittenValues(line, key) ==
    LET pairs == TagPairs(line)
    IN  {pairs[i].v : i \in {j \in 1..Len(pairs) : pairs[j].k = key}}

\* C11: every tag value is written with each backslash, comma, equals sign
\* and space of the original preceded by one backslash and every other
\* character unchanged, no character escaped twice; dropping one backslash
\* before each escaped character of the written value gives back the
\* original value.
C11_EscapeRoundTrips ==
    \A name \in CategoryNames :
        \A line \in LinesOf(Category(name)) :
            LET given == TagsGiven(name)
            IN  \A i \in 1..Len(given) :
                    given[i].v.t \notin {"null", "undefined"} =>
                        /\ WrittenValues(line, given[i].k) = {EscapedOnce(String(given[i].v))}
                        /\ \A w \in WrittenValues(line, given[i].k) :
                               Unescape(w) = String(given[i].v)

\* C11 witness: a record was returned for a device id that holds a
\* backslash and a comma, equals sign or space.
C11_Witness ==
    /\ pc = "done" /\ returned = "msg"
    /\ ReceivedDid.t = "string"
    /\ \E i, j \in 1..Len(ReceivedDid.s) :
          ReceivedDid.s[i] = "\\" /\ ReceivedDid.s[j] \in {",", "=", " "}

\* ------------------------------------------------------------------------
\* C12: the order of the returned lines
\* ------------------------------------------------------------------------

\* The WeatherLink categories in their fixed order.
CategoryOrder == <<"outdoor", "indoor", "barometer">>

\* The returned payload cut at every newline character.
RECURSIVE CutAtNewlines(_)
CutAtNewlines(str) ==
    LET at == {i \in 1..Len(str) : str[i] = "\n"}
    IN  IF at = {} THEN <<str>>
        ELSE LET p == CHOOSE i \in at : \A j \in at : i <= j
             IN  <<SubSeq(str, 1, p - 1)>> \o CutAtNewlines(SubSeq(str, p + 1, Len(str)))

\* The places in the category order whose measurement a line opens with.
RanksOf(line) ==
    {r \in 1..Len(CategoryOrder) :
        StartsWith(line, Category(CategoryOrder[r]).config.measurement \o <<",">>)}

\* A category is not suppressed: a sub-report was selected for it and at
\* least one of its schema fields is kept.
NotSuppressed(name) ==
    /\ Category(name).block.t \notin {"undefined", "null"}
    /\ \E i \in 1..Len(Category(name).schema) :
          FieldKept(Category(name).block, Category(name).schema[i])

\* C12: the payload the WeatherLink node returns is the lines of the
\* categories that are not suppressed, one line each, in the order outdoor,
\* indoor, barometer whatever the order of the sub-reports in
\* data.conditions, separated by single newlines with none leading or
\* trailing.
C12_LinesInCategoryOrder ==
    (variant = "weatherlink" /\ returned = "msg") =>
        LET parts == CutAtNewlines(msg.payload.s)
        IN  /\ msg.payload.t = "string"
            /\ \A i \in 1..Len(parts) : parts[i] # <<>> /\ Cardinality(RanksOf(parts[i])) = 1
            /\ \A i, j \in 1..Len(parts) :
                   i < j => \A a \in RanksOf(parts[i]), b \in RanksOf(parts[j]) : a < b
            /\ \A r \in 1..Len(CategoryOrder) :
                   NotSuppressed(CategoryOrder[r]) <=> \E i \in 1..Len(parts) : r \in RanksOf(parts[i])

\* C12 witness: all three lines were returned for a conditions array that
\* lists the barometer sub-report first and the outdoor one last.
C12_Witness ==
    /\ variant = "weatherlink" /\ returned = "msg"
    /\ Len(lines) = 3
    /\ Len(ReceivedConditions.items) = 3
    /\ ReceivedConditions.items[1] = BarBlock
    /\ ReceivedConditions.items[2] = IndoorBlock
    /\ ReceivedConditions.items[3] = OutdoorTx1

\* ------------------------------------------------------------------------
\* C13: the emitted fields and the schema
\* ------------------------------------------------------------------------

\* The names of a line's fields, in the order they are written.
FieldNamesOf(line) == LET pairs == FieldPairs(line) IN [i \in 1..Len(pairs) |-> pairs[i].k]

\* The places of a name in a schema's declaration order.
PlacesIn(schema, name) == {i \in 1..Len(schema) : schema[i].name = name}

\* A sequence of names is a subsequence of the schema's declaration order:
\* every name is declared, and each comes strictly later in the schema than
\* the one before it (so none appears twice).
SubsequenceOfSchema(names, schema) ==
    /\ \A i \in 1..Len(names) : Cardinality(PlacesIn(schema, names[i])) = 1
    /\ \A i \in 1..(Len(names) - 1) :
          \A a \in PlacesIn(schema, names[i]), b \in PlacesIn(schema, names[i + 1]) : a < b

\* The keys of a sub-report that the schema does not name.
UnnamedKeys(block, schema) ==
    IF block.t = "object" THEN {key \in DOMAIN block.props : ~InSchema(schema, key)} ELSE {}

====
